---- MODULE Spec2Model ----
(***************************************************************************)
(* Cluster manager of the proxy: source/common/upstream/                   *)
(* cluster_manager_impl.cc.                                                *)
(*                                                                         *)
(* These parts share the module.                                          *)
(*  - The construction of ClusterManagerImpl from a configuration, one     *)
(*    loadCluster call per step, followed by the init reports of the       *)
(*    clusters (specification SpecLoad).                                   *)
(*  - The running manager of a fixed configuration: the primary posts      *)
(*    membership updates, the workers apply them, hand out connection      *)
(*    pools and drain the pools of removed hosts (specifications           *)
(*    SpecFanout and SpecPools), serve the other requests of a worker     *)
(*    (SpecRequests), choose between the HTTP/1 and the HTTP/2 pool        *)
(*    (SpecHttp2) and bind the load balancers to the local cluster         *)
(*    (SpecLocal).                                                         *)
(*  - The outlier detector of one cluster, outlier_detection_impl.h        *)
(*    (specification SpecDetector).                                        *)
(***************************************************************************)
EXTENDS Integers, Sequences, FiniteSets, TLC

VARIABLES
    \* ---- construction (ClusterManagerImpl::ClusterManagerImpl) ----
    config,                 \* the Json configuration handed to the constructor
    pc,                     \* position of the constructor
    load_idx,               \* index of the next clusters[] entry to load
    pending_cluster_init_,  \* uint32 counter of pending init reports
    sds_config_,            \* Optional<SdsConfig>: TRUE when valid
    sds_clusters_,          \* std::list<SdsClusterImpl*>, as names
    primary_clusters_,      \* name -> cluster type
    reported,               \* clusters whose init callback has run
    started,                \* SDS clusters on which initialize() was called
    initialized_callback_,  \* TRUE when a callback is stored
    cb_registered,          \* setInitializedCb was called by the server
    cb_invocations,         \* times the external callback was invoked
    replicas_created,       \* tls.set was reached (worker replicas exist)
    \* ---- primary side of the running manager ----
    primary_hosts,          \* cluster -> HostSet of the primary cluster
    host_healthy,           \* host -> health flag of the shared Host object
    sent,                   \* cluster -> sequence of the updates posted
    \* ---- workers ----
    queue,                  \* worker -> tasks posted on its dispatcher
    thread_local_clusters_, \* worker -> cluster -> ClusterEntry
    host_http_conn_pool_map_, \* worker -> key -> ConnPoolsContainer
    pools,                  \* worker -> sequence of the pools allocated
    worker_state,           \* worker -> running | shutdown | crashed
    deferred_delete,        \* worker -> pools handed to dispatcher_.deferredDelete
    calls,                  \* worker -> number of pool requests served
    last_call,              \* worker -> the last pool request and its outcome
    upstream_cx_none_healthy, \* cluster -> counter
    \* ---- collaborators of the manager ----
    runtime_,               \* value of upstream.use_http2 in the runtime
                            \* snapshot: <<>> when the key is not set
    \* ---- local cluster ----
    local_cluster_name,     \* config "local_cluster_name", NoLocal when absent
    replica_order,          \* worker -> names in the order their ClusterEntry
                            \* was constructed
    \* ---- outlier detector of one cluster (outlier_detection_impl.h) ----
    host_sinks_,            \* host -> DetectorHostSinkImpl
    outlier_ejected,        \* host -> health flag outlier-ejected
    stats_,                 \* DetectionStats of the cluster
    lb_hosts,               \* hosts the load balancer of the cluster picks from
    posted_5xx,             \* onConsecutive5xx events posted to the detector
    now,                    \* time_source_
    ejection_floor,         \* runtime floor of the un-ejected percentage
    responses,              \* number of responses reported so far
    episodes                \* host -> runs of 5xx that reached the threshold

loadVars == <<config, pc, load_idx, pending_cluster_init_, sds_config_,
              sds_clusters_, primary_clusters_, reported, started,
              initialized_callback_, cb_registered, cb_invocations,
              replicas_created>>
primaryVars == <<primary_hosts, host_healthy, sent>>
workerVars == <<queue, thread_local_clusters_, host_http_conn_pool_map_, pools,
                worker_state, deferred_delete, calls, last_call,
                upstream_cx_none_healthy>>
detectorVars == <<host_sinks_, outlier_ejected, stats_, lb_hosts, posted_5xx,
                  now, ejection_floor, responses, episodes>>
localVars == <<local_cluster_name, replica_order>>
extVars == <<runtime_, detectorVars, localVars>>
vars == <<loadVars, primaryVars, workerVars, extVars>>

----------------------------------------------------------------------------
(* Bounds of the model. *)

\* Longest clusters[] array of a configuration.
MaxClusters == 3

\* Most membership updates the primary posts after the construction.
MaxUpdates == 3

\* Most pool requests one worker serves.
MaxCalls == 3

\* Most responses reported to the outlier detector.
MaxResponses == 11

\* Last instant of the clock of the outlier detector.
MaxTime == 6

----------------------------------------------------------------------------
(* Helpers. *)

Range(s) == {s[i] : i \in 1..Len(s)}

SeqsUpTo(S, n) == UNION {[1..k -> S] : k \in 0..n}

\* uint32_t arithmetic of the counters.  A value is represented by its
\* residue modulo 2^32 nearest to zero, so that -1 stands for 2^32 - 1, the
\* value a decrement of 0 wraps to; the comparisons the code makes (== 0,
\* == size) are those of the residues.
Dec32(x) == x - 1

Inc32(x) == x + 1

----------------------------------------------------------------------------
(* Configuration. *)

ClusterNames == {"a", "b", "d"}

\* The name of the cluster under "sds" in the configurations considered.
SdsBackingName == "d"

\* "bogus" stands for any type string loadCluster does not know.
ClusterConfigs == [name : ClusterNames, type : {"static", "strict_dns", "sds", "bogus"}]

\* sds is "none" when the configuration has no "sds" object, else the type
\* of the cluster under it.
Configs ==
    [sds : {"none", "static", "strict_dns", "logical_dns"},
     clusters : SeqsUpTo(ClusterConfigs, MaxClusters)]

\* The configuration of the running manager studied by SpecFanout: a DNS
\* cluster "a" and a static cluster "b".
RunConfig ==
    [sds |-> "none",
     clusters |-> <<[name |-> "a", type |-> "strict_dns"],
                    [name |-> "b", type |-> "static"]>>]

\* The configuration of the running manager studied by SpecPools: the DNS
\* cluster "a".
PoolsConfig ==
    [sds |-> "none", clusters |-> <<[name |-> "a", type |-> "strict_dns"]>>]

\* StaticClusterImpl runs the callback inside setInitializedCb; the DNS and
\* SDS clusters store it and run it after their first resolution.
ReportsSynchronously(type) == type = "static"

----------------------------------------------------------------------------
(* The init callback installed by loadCluster (lines 117-130), on the      *)
(* record st of the manager's fields.                                      *)

InitializedCbStartsEarly(st) ==
    LET p == Dec32(st.pending)
    IN [st EXCEPT
          !.pending = p,
          !.invocations = IF p = 0 /\ st.callback THEN @ + 1 ELSE @,
          !.started = IF p # 0 /\ p = Len(st.sds_clusters) + 1
                      THEN @ \cup Range(st.sds_clusters) ELSE @]

InitializedCbFiresAtSds(st) ==
    LET p == Dec32(st.pending)
    IN [st EXCEPT
          !.pending = p,
          !.invocations = IF st.callback /\ (p = 0 \/ p = Len(st.sds_clusters))
                          THEN @ + 1 ELSE @,
          !.started = IF p # 0 /\ p = Len(st.sds_clusters)
                      THEN @ \cup Range(st.sds_clusters) ELSE @]

InitializedCb(st) ==
    LET p == Dec32(st.pending)
    IN [st EXCEPT
          !.pending = p,
          !.invocations = IF p = 0 /\ st.callback THEN @ + 1 ELSE @,
          !.started = IF p # 0 /\ p = Len(st.sds_clusters)
                      THEN @ \cup Range(st.sds_clusters) ELSE @]

\* ClusterManagerImpl::loadCluster (lines 84-157) on the record st; the
\* field failed is set where the code throws EnvoyException.
LoadClusterOnKeepsDuplicate(cl, st) ==
    IF cl.type \notin {"static", "strict_dns", "logical_dns", "sds"}
    THEN [st EXCEPT !.failed = TRUE]
    ELSE IF cl.type = "sds" /\ ~st.sds_config
    THEN [st EXCEPT !.failed = TRUE]
    ELSE
      LET s1 == IF cl.type = "sds"
                THEN [st EXCEPT !.sds_clusters = Append(@, cl.name)]
                ELSE st
          s2 == IF ReportsSynchronously(cl.type)
                THEN [InitializedCb(s1) EXCEPT !.reported = @ \cup {cl.name}]
                ELSE s1
      IN IF cl.name \in DOMAIN st.primary THEN s2
         ELSE [s2 EXCEPT !.primary = (cl.name :> cl.type) @@ @]

LoadClusterOnSdsWithoutConfig(cl, st) ==
    IF cl.type \notin {"static", "strict_dns", "logical_dns", "sds"}
    THEN [st EXCEPT !.failed = TRUE]
    ELSE
      LET s1 == IF cl.type = "sds"
                THEN [st EXCEPT !.sds_clusters = Append(@, cl.name)]
                ELSE st
      IN IF cl.name \in DOMAIN st.primary
         THEN [s1 EXCEPT !.failed = TRUE]
         ELSE
           LET s2 == IF ReportsSynchronously(cl.type)
                     THEN [InitializedCb(s1) EXCEPT !.reported = @ \cup {cl.name}]
                     ELSE s1
           IN [s2 EXCEPT !.primary = (cl.name :> cl.type) @@ @]

LoadClusterOn(cl, st) ==
    IF cl.type \notin {"static", "strict_dns", "logical_dns", "sds"}
    THEN [st EXCEPT !.failed = TRUE]
    ELSE IF cl.type = "sds" /\ ~st.sds_config
    THEN [st EXCEPT !.failed = TRUE]
    ELSE
      LET s1 == IF cl.type = "sds"
                THEN [st EXCEPT !.sds_clusters = Append(@, cl.name)]
                ELSE st
      IN IF cl.name \in DOMAIN st.primary
         THEN [s1 EXCEPT !.failed = TRUE]
         ELSE
           LET s2 == IF ReportsSynchronously(cl.type)
                     THEN [InitializedCb(s1) EXCEPT !.reported = @ \cup {cl.name}]
                     ELSE s1
           IN [s2 EXCEPT !.primary = (cl.name :> cl.type) @@ @]

ManagerFields ==
    [pending |-> pending_cluster_init_, sds_config |-> sds_config_,
     sds_clusters |-> sds_clusters_, primary |-> primary_clusters_,
     reported |-> reported, started |-> started,
     callback |-> initialized_callback_, invocations |-> cb_invocations,
     failed |-> FALSE]

SetManagerFields(st) ==
    /\ pending_cluster_init_' = st.pending
    /\ sds_config_' = st.sds_config
    /\ sds_clusters_' = st.sds_clusters
    /\ primary_clusters_' = st.primary
    /\ reported' = st.reported
    /\ started' = st.started
    /\ initialized_callback_' = st.callback
    /\ cb_invocations' = st.invocations

EmptyMap == [x \in {} |-> 0]

----------------------------------------------------------------------------
(* Hosts and host sets. *)

Workers == {"w1", "w2"}

\* Host objects, by identity.  Hosts 1..3 can be discovered by the DNS
\* cluster "a"; host 4 is the configured host of the static cluster "b".
Hosts == {1, 2, 3, 4}

HostCluster(h) == IF h = 4 THEN "b" ELSE "a"

\* Network address of a host: hosts 1 and 2 are two Host objects of the
\* same address, host 2 being created when the address is seen again.
Address(h) == CASE h = 1 -> 101 [] h = 2 -> 101 [] OTHER -> 99 + h

Zones == {"z1", "z2"}

Zone(h) == IF h = 3 THEN "z2" ELSE "z1"

\* hosts[] of a static cluster of the configuration.
ConfigHosts(name) == IF name = "b" THEN <<4>> ELSE <<>>

\* Features::HTTP2 of the cluster's info.
FeaturesHttp2(name) == name = "b"

\* lbType() of the cluster.
LbType(name) == IF name = "a" THEN "round_robin" ELSE "random"

\* The four vectors of a HostSet whose members are hs (a sequence without
\* repetition) under the health flags healthy.
HostSetOf(hs, healthy) ==
    [hosts |-> hs,
     healthy_hosts |-> SelectSeq(hs, LAMBDA h : healthy[h]),
     hosts_per_zone |-> [z \in Zones |-> SelectSeq(hs, LAMBDA h : Zone(h) = z)],
     healthy_hosts_per_zone |->
        [z \in Zones |-> SelectSeq(hs, LAMBDA h : Zone(h) = z /\ healthy[h])]]

EmptyHostSet == HostSetOf(<<>>, [h \in Hosts |-> TRUE])

\* Optional<std::string> local_cluster_name that is not valid, and the
\* nullptr handed to a ClusterEntry as local_host_set.
NoLocal == "none"

\* ClusterEntry of a worker (lines 323-351): its HostSet, the round robin
\* index of its load balancer and the HostSet the load balancer was given
\* as local_host_set, named by the cluster that owns it.
ClusterEntry(local_host_set) ==
    [host_set |-> EmptyHostSet, rr_index |-> 0, local_host_set |-> local_host_set]

\* The order in which a loop visits the entries of primary_clusters_, an
\* unordered map: some fixed order of the names.
RECURSIVE MapOrder(_)
MapOrder(names) ==
    IF names = {} THEN <<>>
    ELSE LET n == CHOOSE x \in names : TRUE
         IN <<n>> \o MapOrder(names \ {n})

\* The clusters in the order the constructor of the worker replica creates
\* their ClusterEntry (lines 239-260): the local cluster, then the loop over
\* primary_clusters_.
CreationOrderWithoutContinue(local, names) ==
    (IF local = NoLocal THEN <<>> ELSE <<local>>) \o MapOrder(names)

CreationOrder(local, names) ==
    (IF local = NoLocal THEN <<>> ELSE <<local>>)
       \o SelectSeq(MapOrder(names), LAMBDA n : n # local)

\* ThreadLocalClusterManagerImpl::ThreadLocalClusterManagerImpl (lines
\* 234-260): thread_local_clusters_ after the constructor, each name holding
\* the entry constructed last for it, and the order of the constructions.
\* The first entry of a valid local cluster gets nullptr, every entry of the
\* loop gets local_host_set (lines 247-249).
ThreadLocalClusterManagerImpl(local, names) ==
    LET order == CreationOrder(local, names)
        last(n) == CHOOSE i \in 1..Len(order) :
                      order[i] = n /\ \A j \in 1..Len(order) : order[j] = n => j <= i
    IN [clusters |-> [n \in Range(order) |->
                        ClusterEntry(IF local # NoLocal /\ last(n) = 1
                                     THEN NoLocal ELSE local)],
        created |-> order]

----------------------------------------------------------------------------
(* postThreadLocalClusterUpdate (lines 185-203): the task captures the     *)
(* four vectors of the primary cluster and the delta by value.  k numbers  *)
(* the updates of a cluster.                                               *)

MakeTaskHealthyPerZoneFromFull(name, hs, hosts_added, hosts_removed, k) ==
    [name |-> name,
     hosts |-> hs.hosts,
     healthy_hosts |-> hs.healthy_hosts,
     hosts_per_zone |-> hs.hosts_per_zone,
     healthy_hosts_per_zone |-> hs.hosts_per_zone,
     hosts_added |-> hosts_added,
     hosts_removed |-> hosts_removed,
     k |-> k]

MakeTask(name, hs, hosts_added, hosts_removed, k) ==
    [name |-> name,
     hosts |-> hs.hosts,
     healthy_hosts |-> hs.healthy_hosts,
     hosts_per_zone |-> hs.hosts_per_zone,
     healthy_hosts_per_zone |-> hs.healthy_hosts_per_zone,
     hosts_added |-> hosts_added,
     hosts_removed |-> hosts_removed,
     k |-> k]

\* tls_.runOnAllThreads: the task is posted on every worker's dispatcher.
RunOnAllThreadsInFront(q, task) == [w \in Workers |-> <<task>> \o q[w]]

RunOnAllThreads(q, task) == [w \in Workers |-> Append(q[w], task)]

----------------------------------------------------------------------------
(* Connection pools of a worker.  The state of one worker that the drain   *)
(* protocol touches is the record ws:                                      *)
(*   map      host_http_conn_pool_map_                                     *)
(*   pools    the pools allocated so far; a pool is named by its index     *)
(*   deferred the pools handed to dispatcher_.deferredDelete               *)
(*   crashed  the worker read a freed container and faulted                *)

\* ResourcePriority, in the order of the slots of ConnPoolsContainer::pools_.
Priorities == <<"Default", "High">>

PrioritySet == Range(Priorities)

NoPool == 0

NoHost == 0

\* The outcome of a pool request: the cluster and priority asked for, the
\* host chosen, the pool returned, and whether that pool had a drained
\* callback registered when it was returned.
CallRecord(name, priority, result, host, pool, draining) ==
    [op |-> "HttpConnPool", cluster |-> name, priority |-> priority,
     result |-> result, host |-> host, pool |-> pool, draining |-> draining]

NoCall == CallRecord("", "", "none", NoHost, NoPool, FALSE)

\* A default-constructed ConnPoolsContainer.
EmptyContainer ==
    [pools_ |-> [p \in PrioritySet |-> NoPool], drains_remaining_ |-> 0]

\* host_http_conn_pool_map_ is keyed by the HostPtr, the identity of the
\* Host object (lines 269, 292, 362).
MapKeyByAddress(h) == Address(h)

MapKey(h) == h

WithoutKey(m, key) == [k \in DOMAIN m \ {key} |-> m[k]]

\* operator[] of the map: the entry is default-constructed when absent.
FindOrInsert(m, key) ==
    IF key \in DOMAIN m THEN m ELSE (key :> EmptyContainer) @@ m

PoolsIn(c) == {c.pools_[p] : p \in PrioritySet} \ {NoPool}

\* The drained callback drainConnPools registers (lines 291-301).
DrainedCbDestroysInline(ws, old_host) ==
    LET key == MapKey(old_host)
        m == FindOrInsert(ws.map, key)
        rem == Dec32(m[key].drains_remaining_)
    IN IF rem = 0
       THEN [ws EXCEPT !.map = WithoutKey(m, key)]
       ELSE [ws EXCEPT !.map = [m EXCEPT ![key].drains_remaining_ = rem]]

DrainedCb(ws, old_host) ==
    LET key == MapKey(old_host)
        m == FindOrInsert(ws.map, key)
        rem == Dec32(m[key].drains_remaining_)
    IN IF rem = 0
       THEN [ws EXCEPT !.map = WithoutKey(m, key),
                       !.deferred = @ \cup PoolsIn(m[key])]
       ELSE [ws EXCEPT !.map = [m EXCEPT ![key].drains_remaining_ = rem]]

\* A pool that has no stream left runs the drained callbacks registered on
\* it, in order.
RECURSIVE RunCallbacks(_, _, _)
RunCallbacks(ws, cbs, i) ==
    IF i > Len(cbs) THEN ws
    ELSE RunCallbacks(DrainedCb(ws, cbs[i]), cbs, i + 1)

PoolReportsDrained(ws, p) ==
    RunCallbacks([ws EXCEPT !.pools[p].reported = TRUE], ws.pools[p].cbs, 1)

\* ConnectionPool::addDrainedCallback: the callback is stored, and runs at
\* once when the pool is idle.
AddDrainedCallback(ws, p, old_host) ==
    LET ws1 == [ws EXCEPT !.pools[p].cbs = Append(@, old_host)]
    IN IF ws1.pools[p].busy THEN ws1 ELSE PoolReportsDrained(ws1, p)

\* The second loop of drainConnPools (lines 286-302), from slot i on.  The
\* reference container dangles once a callback has erased the entry: the
\* loop then reads freed memory, which the build either finds null (the slot
\* is skipped) or not (the worker faults); uaf_crash picks the outcome.
RECURSIVE RegisterLoop(_, _, _, _)
RegisterLoop(ws, old_host, i, uaf_crash) ==
    IF i > Len(Priorities) \/ ws.crashed THEN ws
    ELSE IF MapKey(old_host) \notin DOMAIN ws.map
    THEN IF uaf_crash THEN [ws EXCEPT !.crashed = TRUE]
         ELSE RegisterLoop(ws, old_host, i + 1, uaf_crash)
    ELSE LET p == ws.map[MapKey(old_host)].pools_[Priorities[i]]
         IN IF p = NoPool
            THEN RegisterLoop(ws, old_host, i + 1, uaf_crash)
            ELSE RegisterLoop(AddDrainedCallback(ws, p, old_host),
                              old_host, i + 1, uaf_crash)

\* ThreadLocalClusterManagerImpl::drainConnPools (lines 278-303), called
\* with the container found for old_host.
DrainConnPoolsWithoutCount(ws, old_host, uaf_crash) ==
    RegisterLoop(ws, old_host, 1, uaf_crash)

DrainConnPools(ws, old_host, uaf_crash) ==
    LET key == MapKey(old_host)
        n == Cardinality({p \in PrioritySet : ws.map[key].pools_[p] # NoPool})
    IN RegisterLoop([ws EXCEPT !.map[key].drains_remaining_ = @ + n],
                    old_host, 1, uaf_crash)

\* The member update callback of a worker HostSet (lines 264-274), from the
\* i-th removed host on.
RECURSIVE MemberUpdateCbInserts(_, _, _, _)
MemberUpdateCbInserts(ws, hosts_removed, i, uaf_crash) ==
    IF i > Len(hosts_removed) \/ ws.crashed THEN ws
    ELSE MemberUpdateCbInserts(
            DrainConnPools([ws EXCEPT !.map = FindOrInsert(@, MapKey(hosts_removed[i]))],
                           hosts_removed[i], uaf_crash),
            hosts_removed, i + 1, uaf_crash)

RECURSIVE MemberUpdateCb(_, _, _, _)
MemberUpdateCb(ws, hosts_removed, i, uaf_crash) ==
    IF i > Len(hosts_removed) \/ ws.crashed THEN ws
    ELSE IF MapKey(hosts_removed[i]) \in DOMAIN ws.map
    THEN MemberUpdateCb(DrainConnPools(ws, hosts_removed[i], uaf_crash),
                        hosts_removed, i + 1, uaf_crash)
    ELSE MemberUpdateCb(ws, hosts_removed, i + 1, uaf_crash)

\* Runtime::Snapshot::featureEnabled(key, default_value): the stored value
\* of the key, or the default when the key is not set, is the percentage of
\* the rolls (0..99) for which the feature is on.
FeatureEnabled(value, default_value, roll) ==
    roll < (IF value = <<>> THEN default_value ELSE value[1])

\* runtime_.snapshot().featureEnabled("upstream.use_http2", 100) of
\* allocateConnPool (line 376) for a roll.
UseHttp2(value, roll) == FeatureEnabled(value, 100, roll)

\* ProdClusterManagerImpl::allocateConnPool (lines 372-383); use_http2 is
\* what featureEnabled("upstream.use_http2", 100) returned.
AllocateConnPoolIgnoresFeatureBit(host, priority, use_http2) ==
    [host |-> host,
     priority |-> priority,
     kind |-> IF use_http2 THEN "http2" ELSE "http1",
     busy |-> FALSE,
     cbs |-> <<>>,
     reported |-> FALSE]

AllocateConnPool(host, priority, use_http2) ==
    [host |-> host,
     priority |-> priority,
     kind |-> IF FeaturesHttp2(HostCluster(host)) /\ use_http2 THEN "http2" ELSE "http1",
     busy |-> FALSE,
     cbs |-> <<>>,
     reported |-> FALSE]

\* ClusterEntry::connPool after a host was chosen (lines 362-369): the pool
\* returned and the worker state left.
ConnPoolAlwaysAllocates(ws, host, priority, use_http2) ==
    LET key == MapKey(host)
        m == FindOrInsert(ws.map, key)
        id == Len(ws.pools) + 1
    IN [pool |-> id,
        ws |-> [ws EXCEPT
                  !.map = [m EXCEPT ![key].pools_[priority] = id],
                  !.pools = Append(@, AllocateConnPool(host, priority, use_http2))]]

ConnPoolForHost(ws, host, priority, use_http2) ==
    LET key == MapKey(host)
        m == FindOrInsert(ws.map, key)
        id == Len(ws.pools) + 1
    IN IF m[key].pools_[priority] # NoPool
       THEN [pool |-> m[key].pools_[priority], ws |-> [ws EXCEPT !.map = m]]
       ELSE [pool |-> id,
             ws |-> [ws EXCEPT
                       !.map = [m EXCEPT ![key].pools_[priority] = id],
                       !.pools = Append(@, AllocateConnPool(host, priority, use_http2))]]

\* The vector a load balancer picks from: the healthy hosts, or all hosts
\* when none is healthy.
HostsToUse(hs) == IF hs.healthy_hosts = <<>> THEN hs.hosts ELSE hs.healthy_hosts

\* lb_->chooseHost(): the hosts the balancer of the entry may return.
ChooseHost(name, entry) ==
    LET u == HostsToUse(entry.host_set)
    IN IF u = <<>> THEN {NoHost}
       ELSE IF LbType(name) = "round_robin" THEN {u[(entry.rr_index % Len(u)) + 1]}
       ELSE Range(u)

WorkerRecord(w) ==
    [map |-> host_http_conn_pool_map_[w], pools |-> pools[w],
     deferred |-> deferred_delete[w], crashed |-> FALSE]

SetWorkerRecord(w, ws) ==
    /\ host_http_conn_pool_map_' = [host_http_conn_pool_map_ EXCEPT ![w] = ws.map]
    /\ pools' = [pools EXCEPT ![w] = ws.pools]
    /\ deferred_delete' = [deferred_delete EXCEPT ![w] = ws.deferred]
    /\ worker_state' = [worker_state EXCEPT ![w] = IF ws.crashed THEN "crashed" ELSE @]

----------------------------------------------------------------------------
(* Outlier detector of one cluster.  Only the declarations of             *)
(* outlier_detection_impl.h are at hand; the behaviour is the one the      *)
(* specification of the detector describes.                                *)

\* host_sinks_: the hosts of the cluster the detector watches.
DetectorHosts == {"A", "B", "C"}

\* Response codes the workers report.
ResponseCodes == {200, 404, 500, 503}

Is5xx(code) == code >= 500 /\ code < 600

\* consecutive_5xx_threshold of the runtime.
Consecutive5xxThreshold == 5

\* base_ejection_time of the runtime, in instants of the clock.
BaseEjectionTime == 2

\* Values of the runtime floor of the un-ejected percentage.
FloorValues == {10, 50}

\* DetectorHostSinkImpl (lines 41-59) of a host never ejected.
NewHostSink == [consecutive_5xx_ |-> 0, ejection_time_ |-> 0, num_ejections_ |-> 0]

\* DetectionStats (lines 65-77).
NewStats == [ejections_total |-> 0, ejections_active |-> 0, ejections_overflow |-> 0]

InitDetector ==
    /\ host_sinks_ = [h \in DetectorHosts |-> NewHostSink]
    /\ outlier_ejected = [h \in DetectorHosts |-> FALSE]
    /\ stats_ = NewStats
    /\ lb_hosts = DetectorHosts
    /\ posted_5xx = <<>>
    /\ now = 0
    /\ ejection_floor = 10
    /\ responses = 0
    /\ episodes = [h \in DetectorHosts |-> 0]

\* The state the detector changes on the primary context.
DetectorRecord ==
    [sinks |-> host_sinks_, ejected |-> outlier_ejected, stats |-> stats_,
     lb |-> lb_hosts]

SetDetectorRecord(d) ==
    /\ host_sinks_' = d.sinks
    /\ outlier_ejected' = d.ejected
    /\ stats_' = d.stats
    /\ lb_hosts' = d.lb

\* DetectorImpl::runCallbacks: the change-state callbacks recompute the
\* healthy hosts the load balancer picks from.
RunDetectorCallbacks(d) ==
    [d EXCEPT !.lb = {h \in DetectorHosts : ~d.ejected[h]}]

\* Ejecting one more host keeps the un-ejected percentage of the hosts at
\* or above the floor.
EjectionAllowedBeforeEjecting(d, floor) ==
    LET total == Cardinality(DetectorHosts)
        left == Cardinality({h \in DetectorHosts : ~d.ejected[h]})
    IN ~(left * 100 < floor * total)

EjectionAllowed(d, floor) ==
    LET total == Cardinality(DetectorHosts)
        left == Cardinality({h \in DetectorHosts : ~d.ejected[h]}) - 1
    IN ~(left * 100 < floor * total)

\* DetectorImpl::ejectHost with DetectorHostSinkImpl::eject at time t.
EjectHost(d, host, t, floor) ==
    IF EjectionAllowed(d, floor)
    THEN RunDetectorCallbacks(
            [d EXCEPT !.ejected[host] = TRUE,
                      !.sinks[host].ejection_time_ = t,
                      !.sinks[host].num_ejections_ = @ + 1,
                      !.stats.ejections_total = @ + 1,
                      !.stats.ejections_active = @ + 1])
    ELSE [d EXCEPT !.stats.ejections_overflow = @ + 1]

\* DetectorImpl::onConsecutive5xxWorker: the host goes from OK to ejected;
\* a host that is ejected already stays as it is.
OnConsecutive5xxWorkerEjectsAgain(d, host, t, floor) == EjectHost(d, host, t, floor)

OnConsecutive5xxWorkerOn(d, host, t, floor) ==
    IF d.ejected[host] THEN d ELSE EjectHost(d, host, t, floor)

\* DetectorImpl::checkHostForUneject at time t.
CheckHostForUnejectFixedTime(d, host, t) ==
    IF ~d.ejected[host] THEN d
    ELSE IF t - d.sinks[host].ejection_time_ >= BaseEjectionTime
    THEN RunDetectorCallbacks(
            [d EXCEPT !.ejected[host] = FALSE,
                      !.stats.ejections_active = @ - 1])
    ELSE d

CheckHostForUneject(d, host, t) ==
    IF ~d.ejected[host] THEN d
    ELSE IF t - d.sinks[host].ejection_time_
               >= BaseEjectionTime * d.sinks[host].num_ejections_
    THEN RunDetectorCallbacks(
            [d EXCEPT !.ejected[host] = FALSE,
                      !.stats.ejections_active = @ - 1])
    ELSE d

\* DetectorImpl::onIntervalTimer: the sweep over host_sinks_, here over the
\* hosts hs in some order.
RECURSIVE SweepHosts(_, _, _)
SweepHosts(d, hs, t) ==
    IF hs = {} THEN d
    ELSE LET h == CHOOSE x \in hs : TRUE
         IN SweepHosts(CheckHostForUneject(d, h, t), hs \ {h}, t)

\* DetectorHostSinkImpl::putHttpResponseCode on the sink: the atomic
\* counter after the response.
CountResponse(sink, code) ==
    IF Is5xx(code)
    THEN [sink EXCEPT !.consecutive_5xx_ = @ + 1]
    ELSE [sink EXCEPT !.consecutive_5xx_ = 0]

\* A worker reports the response code of a request to host: the counter is
\* updated and, when it reaches the threshold, DetectorImpl::onConsecutive5xx
\* posts the host to the context of the detector.
PutHttpResponseCode(host, code) ==
    LET sink == CountResponse(host_sinks_[host], code)
        reached == Is5xx(code) /\ sink.consecutive_5xx_ = Consecutive5xxThreshold
    IN /\ responses < MaxResponses
       /\ responses' = responses + 1
       /\ host_sinks_' = [host_sinks_ EXCEPT ![host] = sink]
       /\ posted_5xx' = IF reached THEN Append(posted_5xx, host) ELSE posted_5xx
       /\ episodes' = [episodes EXCEPT ![host] = IF reached THEN @ + 1 ELSE @]
       /\ UNCHANGED <<outlier_ejected, stats_, lb_hosts, now, ejection_floor>>
       /\ UNCHANGED <<loadVars, primaryVars, workerVars, runtime_, localVars>>

\* The context of the detector runs the first posted event.
OnConsecutive5xxWorker ==
    /\ posted_5xx # <<>>
    /\ posted_5xx' = Tail(posted_5xx)
    /\ SetDetectorRecord(OnConsecutive5xxWorkerOn(DetectorRecord, Head(posted_5xx),
                                                  now, ejection_floor))
    /\ UNCHANGED <<now, ejection_floor, responses, episodes>>
    /\ UNCHANGED <<loadVars, primaryVars, workerVars, runtime_, localVars>>

\* The interval timer of the detector fires.
OnIntervalTimer ==
    /\ \E h \in DetectorHosts : outlier_ejected[h]
    /\ SetDetectorRecord(SweepHosts(DetectorRecord, DetectorHosts, now))
    /\ UNCHANGED <<posted_5xx, now, ejection_floor, responses, episodes>>
    /\ UNCHANGED <<loadVars, primaryVars, workerVars, runtime_, localVars>>

\* The clock advances.
Tick ==
    /\ now < MaxTime
    /\ now' = now + 1
    /\ UNCHANGED <<host_sinks_, outlier_ejected, stats_, lb_hosts, posted_5xx,
                   ejection_floor, responses, episodes>>
    /\ UNCHANGED <<loadVars, primaryVars, workerVars, runtime_, localVars>>

\* A new runtime snapshot changes the floor.
SetFloor(floor) ==
    /\ floor # ejection_floor
    /\ ejection_floor' = floor
    /\ UNCHANGED <<host_sinks_, outlier_ejected, stats_, lb_hosts, posted_5xx,
                   now, responses, episodes>>
    /\ UNCHANGED <<loadVars, primaryVars, workerVars, runtime_, localVars>>

----------------------------------------------------------------------------
(* Construction. *)

InitManager ==
    /\ pc = "start"
    /\ load_idx = 1
    /\ pending_cluster_init_ = 0
    /\ sds_config_ = FALSE
    /\ sds_clusters_ = <<>>
    /\ primary_clusters_ = EmptyMap
    /\ reported = {}
    /\ started = {}
    /\ initialized_callback_ = FALSE
    /\ cb_registered = FALSE
    /\ cb_invocations = 0
    /\ replicas_created = FALSE
    /\ primary_hosts = [n \in ClusterNames |-> EmptyHostSet]
    /\ host_healthy = [h \in Hosts |-> TRUE]
    /\ sent = [n \in ClusterNames |-> <<>>]
    /\ queue = [w \in Workers |-> <<>>]
    /\ thread_local_clusters_ = [w \in Workers |-> EmptyMap]
    /\ host_http_conn_pool_map_ = [w \in Workers |-> EmptyMap]
    /\ pools = [w \in Workers |-> <<>>]
    /\ worker_state = [w \in Workers |-> "running"]
    /\ deferred_delete = [w \in Workers |-> {}]
    /\ calls = [w \in Workers |-> 0]
    /\ last_call = [w \in Workers |-> NoCall]
    /\ upstream_cx_none_healthy = [n \in ClusterNames |-> 0]
    /\ runtime_ = <<50>>
    /\ InitDetector
    /\ replica_order = [w \in Workers |-> <<>>]

\* The state before the constructor of a configuration without
\* "local_cluster_name".
InitCommon == InitManager /\ local_cluster_name = NoLocal

\* A static cluster populates its HostSet from the configuration when it is
\* constructed (loadCluster, line 93).
HostsAfterLoad(cl, st) ==
    IF ~st.failed /\ cl.type = "static"
    THEN [primary_hosts EXCEPT ![cl.name] = HostSetOf(ConfigHosts(cl.name), host_healthy)]
    ELSE primary_hosts

\* Constructor, lines 26-49: the counter, then the cluster under "sds".
ConstructCountsClustersOnly ==
    /\ pc = "start"
    /\ LET n == Len(config.clusters)
           st0 == [ManagerFields EXCEPT !.pending = n]
           cl == [name |-> SdsBackingName, type |-> config.sds]
           st1 == IF config.sds = "none" THEN st0
                  ELSE LoadClusterOn(cl, st0)
           st2 == IF config.sds = "none" \/ st1.failed THEN st1
                  ELSE [st1 EXCEPT !.sds_config = TRUE]
       IN /\ SetManagerFields(st2)
          /\ pc' = IF st2.failed THEN "failed" ELSE "clusters"
          /\ primary_hosts' = IF config.sds = "none" THEN primary_hosts
                              ELSE HostsAfterLoad(cl, st1)
    /\ UNCHANGED <<extVars, config, load_idx, cb_registered, replicas_created,
                   host_healthy, sent, workerVars>>

Construct ==
    /\ pc = "start"
    /\ LET n == Len(config.clusters)
           st0 == [ManagerFields EXCEPT !.pending = n]
           cl == [name |-> SdsBackingName, type |-> config.sds]
           st1 == IF config.sds = "none" THEN st0
                  ELSE LoadClusterOn(cl, [st0 EXCEPT !.pending = Inc32(@)])
           st2 == IF config.sds = "none" \/ st1.failed THEN st1
                  ELSE [st1 EXCEPT !.sds_config = TRUE]
       IN /\ SetManagerFields(st2)
          /\ pc' = IF st2.failed THEN "failed" ELSE "clusters"
          /\ primary_hosts' = IF config.sds = "none" THEN primary_hosts
                              ELSE HostsAfterLoad(cl, st1)
    /\ UNCHANGED <<extVars, config, load_idx, cb_registered, replicas_created,
                   host_healthy, sent, workerVars>>

\* Constructor, lines 51-54: one loadCluster call of the loop.
LoadCluster ==
    /\ pc = "clusters"
    /\ load_idx <= Len(config.clusters)
    /\ LET cl == config.clusters[load_idx]
           st == LoadClusterOn(cl, ManagerFields)
       IN /\ SetManagerFields(st)
          /\ pc' = IF st.failed THEN "failed" ELSE "clusters"
          /\ primary_hosts' = HostsAfterLoad(cl, st)
    /\ load_idx' = load_idx + 1
    /\ UNCHANGED <<extVars, config, cb_registered, replicas_created,
                   host_healthy, sent, workerVars>>

\* The clusters that start with hosts, in the order the constructor visits
\* them (lines 75-81).
RECURSIVE PostInitial(_, _, _)
PostInitial(names, q, s) ==
    IF names = {} THEN [queue |-> q, sent |-> s]
    ELSE LET n == CHOOSE x \in names : TRUE
             task == MakeTask(n, primary_hosts[n], primary_hosts[n].hosts, <<>>,
                              Len(s[n]) + 1)
         IN IF primary_hosts[n].hosts = <<>>
            THEN PostInitial(names \ {n}, q, s)
            ELSE PostInitial(names \ {n}, RunOnAllThreads(q, task),
                             [s EXCEPT ![n] = Append(@, task)])

\* Constructor, lines 56-82: a local cluster name that is not loaded throws
\* (lines 56-63); else the worker replicas are created
\* (ThreadLocalClusterManagerImpl, lines 234-260) and the clusters that
\* already have hosts post their first update.
FinishLoad ==
    /\ pc = "clusters"
    /\ load_idx > Len(config.clusters)
    /\ IF local_cluster_name # NoLocal /\ local_cluster_name \notin DOMAIN primary_clusters_
       THEN /\ pc' = "failed"
            /\ UNCHANGED <<replicas_created, thread_local_clusters_, replica_order,
                           queue, sent>>
       ELSE /\ pc' = "done"
            /\ replicas_created' = TRUE
            /\ LET t == ThreadLocalClusterManagerImpl(local_cluster_name,
                                                      DOMAIN primary_clusters_)
               IN /\ thread_local_clusters_' = [w \in Workers |-> t.clusters]
                  /\ replica_order' = [w \in Workers |-> t.created]
            /\ LET r == PostInitial(DOMAIN primary_clusters_, queue, sent)
               IN queue' = r.queue /\ sent' = r.sent
    /\ UNCHANGED <<runtime_, detectorVars, local_cluster_name, config, load_idx, pending_cluster_init_, sds_config_,
                   sds_clusters_, primary_clusters_, reported, started,
                   initialized_callback_, cb_registered, cb_invocations,
                   primary_hosts, host_healthy, host_http_conn_pool_map_, pools,
                   worker_state, deferred_delete, calls, last_call,
                   upstream_cx_none_healthy>>

\* A DNS cluster finishes its first resolution, or an SDS cluster that was
\* told to initialize finishes its first fetch: the cluster runs the
\* callback loadCluster installed (lines 117-130).
CanReport(n) ==
    /\ n \in DOMAIN primary_clusters_
    /\ n \notin reported
    /\ \/ primary_clusters_[n] \in {"strict_dns", "logical_dns"}
       \/ primary_clusters_[n] = "sds" /\ n \in started

ClusterInitialized(n) ==
    /\ pc = "done"
    /\ CanReport(n)
    /\ SetManagerFields([InitializedCb(ManagerFields) EXCEPT !.reported = @ \cup {n}])
    /\ UNCHANGED <<extVars, config, pc, load_idx, cb_registered, replicas_created,
                   primaryVars, workerVars>>

\* ClusterManager::setInitializedCb, called once by the server after the
\* manager is constructed: the callback runs at once when nothing is
\* pending and is stored otherwise.
SetInitializedCb ==
    /\ pc = "done"
    /\ ~cb_registered
    /\ cb_registered' = TRUE
    /\ IF pending_cluster_init_ = 0
       THEN cb_invocations' = cb_invocations + 1 /\ UNCHANGED initialized_callback_
       ELSE initialized_callback_' = TRUE /\ UNCHANGED cb_invocations
    /\ UNCHANGED <<extVars, config, pc, load_idx, pending_cluster_init_, sds_config_,
                   sds_clusters_, primary_clusters_, reported, started,
                   replicas_created, primaryVars, workerVars>>

InitLoad == config \in Configs /\ InitCommon

NextLoad ==
    \/ Construct
    \/ LoadCluster
    \/ FinishLoad
    \/ \E n \in ClusterNames : ClusterInitialized(n)
    \/ SetInitializedCb

SpecLoad == InitLoad /\ [][NextLoad]_vars

\* With every started cluster eventually reporting and the server
\* registering its callback.
FairSpecLoad == SpecLoad /\ WF_vars(NextLoad)

----------------------------------------------------------------------------
(* The running manager: primary side. *)

\* The updates posted after the construction: a cluster that starts with
\* hosts has posted one update more.
UpdatesPosted ==
    LET n(c) == IF c \in DOMAIN primary_clusters_ /\ primary_clusters_[c] = "static"
                   /\ ConfigHosts(c) # <<>>
                THEN Len(sent[c]) - 1 ELSE Len(sent[c])
    IN n("a") + n("b") + n("d")

\* Hosts that were members of cluster c at some time.
EverMembers(c) == UNION {Range(sent[c][k].hosts_added) : k \in 1..Len(sent[c])}

\* The Host objects a resolution of cluster c may create: none, or the
\* next host of the cluster that has never been a member.
FreshHosts(c) ==
    LET unused == {h \in Hosts : HostCluster(h) = c} \ EverMembers(c)
        first == {x \in unused : \A y \in unused : x <= y}
    IN {{}, first}

\* The members a resolution of cluster c may drop: none or one of them.
StaleHosts(c) == {{}} \cup {{h} : h \in Range(primary_hosts[c].hosts)}

\* A set of hosts as a vector, in the order of the host numbers.
RECURSIVE SetToSeq(_)
SetToSeq(S) ==
    IF S = {} THEN <<>>
    ELSE LET x == CHOOSE y \in S : \A z \in S : y <= z
         IN <<x>> \o SetToSeq(S \ {x})

\* The cluster's HostSet changes and its member update callback (lines
\* 133-138) posts the update to the workers.
PostUpdateInFront(c, hs, hosts_added, hosts_removed) ==
    LET task == MakeTask(c, hs, hosts_added, hosts_removed, Len(sent[c]) + 1)
    IN /\ primary_hosts' = [primary_hosts EXCEPT ![c] = hs]
       /\ sent' = [sent EXCEPT ![c] = Append(@, task)]
       /\ queue' = RunOnAllThreadsInFront(queue, task)

PostUpdate(c, hs, hosts_added, hosts_removed) ==
    LET task == MakeTask(c, hs, hosts_added, hosts_removed, Len(sent[c]) + 1)
    IN /\ primary_hosts' = [primary_hosts EXCEPT ![c] = hs]
       /\ sent' = [sent EXCEPT ![c] = Append(@, task)]
       /\ queue' = RunOnAllThreads(queue, task)

\* A resolution of the DNS cluster c discovers the new Host objects add and
\* no longer finds the hosts rem.
MembershipChange(c, add, rem) ==
    /\ pc = "done"
    /\ c \in DOMAIN primary_clusters_
    /\ primary_clusters_[c] \in {"strict_dns", "logical_dns"}
    /\ UpdatesPosted < MaxUpdates
    /\ add \cup rem # {}
    /\ add \in FreshHosts(c)
    /\ rem \subseteq Range(primary_hosts[c].hosts)
    /\ LET cur == primary_hosts[c].hosts
           new == SelectSeq(cur, LAMBDA h : h \notin rem) \o SetToSeq(add)
       IN PostUpdate(c, HostSetOf(new, host_healthy), SetToSeq(add),
                     SelectSeq(cur, LAMBDA h : h \in rem))
    /\ UNCHANGED <<extVars, loadVars, host_healthy, thread_local_clusters_,
                   host_http_conn_pool_map_, pools, worker_state,
                   deferred_delete, calls, last_call, upstream_cx_none_healthy>>

\* The health checker or the outlier detector changes the health flag of
\* host h; the cluster recomputes its healthy vectors and runs the member
\* update callbacks with an empty delta.
HealthChange(c, h) ==
    /\ pc = "done"
    /\ c \in DOMAIN primary_clusters_
    /\ UpdatesPosted < MaxUpdates
    /\ h \in Range(primary_hosts[c].hosts)
    /\ host_healthy' = [host_healthy EXCEPT ![h] = ~@]
    /\ PostUpdate(c, HostSetOf(primary_hosts[c].hosts, host_healthy'), <<>>, <<>>)
    /\ UNCHANGED <<extVars, loadVars, thread_local_clusters_,
                   host_http_conn_pool_map_, pools, worker_state,
                   deferred_delete, calls, last_call, upstream_cx_none_healthy>>

----------------------------------------------------------------------------
(* The running manager: workers. *)

\* ThreadLocalClusterManagerImpl::updateClusterMembership (lines 305-317):
\* the HostSet of the entry takes the four vectors of the task.
UpdateClusterMembershipKeepsHealthy(entry, task) ==
    [entry EXCEPT
       !.host_set = [hosts |-> task.hosts,
                     healthy_hosts |-> entry.host_set.healthy_hosts,
                     hosts_per_zone |-> task.hosts_per_zone,
                     healthy_hosts_per_zone |-> task.healthy_hosts_per_zone]]

UpdateClusterMembership(entry, task) ==
    [entry EXCEPT
       !.host_set = [hosts |-> task.hosts,
                     healthy_hosts |-> task.healthy_hosts,
                     hosts_per_zone |-> task.hosts_per_zone,
                     healthy_hosts_per_zone |-> task.healthy_hosts_per_zone]]

\* Worker w runs the task at the head of its dispatcher queue: the HostSet
\* is updated and its member update callback drains the pools of the
\* removed hosts.
RunTask(w) ==
    /\ worker_state[w] = "running"
    /\ queue[w] # <<>>
    /\ LET task == Head(queue[w])
       IN /\ queue' = [queue EXCEPT ![w] = Tail(@)]
          /\ thread_local_clusters_' =
                [thread_local_clusters_ EXCEPT
                   ![w][task.name] = UpdateClusterMembership(@, task)]
          /\ \E uaf_crash \in BOOLEAN :
                SetWorkerRecord(w, MemberUpdateCb(WorkerRecord(w),
                                                  task.hosts_removed, 1, uaf_crash))
    /\ UNCHANGED <<extVars, loadVars, primaryVars, calls, last_call, upstream_cx_none_healthy>>

\* ClusterManagerImpl::httpConnPoolForCluster (lines 171-183) with
\* ClusterEntry::connPool (lines 353-370), on worker w.  start_stream: the
\* caller opens a stream on the pool it gets.  The result "unknown_cluster"
\* is the EnvoyException of line 179, "absent" the nullptr of line 359.
HttpConnPoolForCluster(w, name, priority, use_http2, start_stream) ==
    /\ pc = "done"
    /\ worker_state[w] = "running"
    /\ calls[w] < MaxCalls
    /\ calls' = [calls EXCEPT ![w] = @ + 1]
    /\ IF name \notin DOMAIN thread_local_clusters_[w]
       THEN /\ last_call' = [last_call EXCEPT ![w] =
                  CallRecord(name, priority, "unknown_cluster", NoHost, NoPool, FALSE)]
            /\ UNCHANGED <<thread_local_clusters_, host_http_conn_pool_map_, pools,
                           worker_state, deferred_delete, upstream_cx_none_healthy>>
       ELSE \E host \in ChooseHost(name, thread_local_clusters_[w][name]) :
              IF host = NoHost
              THEN /\ upstream_cx_none_healthy' =
                         [upstream_cx_none_healthy EXCEPT ![name] = @ + 1]
                   /\ last_call' = [last_call EXCEPT ![w] =
                         CallRecord(name, priority, "absent", NoHost, NoPool, FALSE)]
                   /\ UNCHANGED <<thread_local_clusters_, host_http_conn_pool_map_,
                                  pools, worker_state, deferred_delete>>
              ELSE LET r == ConnPoolForHost(WorkerRecord(w), host, priority, use_http2)
                       ws == IF start_stream
                             THEN [r.ws EXCEPT !.pools[r.pool].busy = TRUE]
                             ELSE r.ws
                   IN /\ SetWorkerRecord(w, ws)
                      /\ thread_local_clusters_' =
                            [thread_local_clusters_ EXCEPT ![w][name].rr_index =
                               IF LbType(name) = "round_robin" THEN @ + 1 ELSE @]
                      /\ last_call' = [last_call EXCEPT ![w] =
                            CallRecord(name, priority, "pool", host, r.pool,
                                       r.ws.pools[r.pool].cbs # <<>>)]
                      /\ UNCHANGED upstream_cx_none_healthy
    /\ UNCHANGED <<extVars, loadVars, primaryVars, queue>>

\* The pools held by a container of the map of worker w.
PoolsInMap(w) ==
    UNION {PoolsIn(host_http_conn_pool_map_[w][k]) : k \in DOMAIN host_http_conn_pool_map_[w]}

\* The last stream of pool p of worker w ends; a pool that has drained
\* callbacks registered reports drained.
StreamDone(w, p) ==
    /\ worker_state[w] = "running"
    /\ p \in PoolsInMap(w)
    /\ pools[w][p].busy
    /\ LET ws == [WorkerRecord(w) EXCEPT !.pools[p].busy = FALSE]
       IN SetWorkerRecord(w, IF ws.pools[p].cbs # <<>>
                             THEN PoolReportsDrained(ws, p) ELSE ws)
    /\ UNCHANGED <<extVars, loadVars, primaryVars, queue, thread_local_clusters_, calls, last_call,
                   upstream_cx_none_healthy>>

\* ThreadLocalClusterManagerImpl::shutdown (lines 319-321): the containers,
\* and the pools they own, are destroyed.
Shutdown(w) ==
    /\ pc = "done"
    /\ worker_state[w] = "running"
    /\ worker_state' = [worker_state EXCEPT ![w] = "shutdown"]
    /\ host_http_conn_pool_map_' = [host_http_conn_pool_map_ EXCEPT ![w] = EmptyMap]
    /\ UNCHANGED <<extVars, loadVars, primaryVars, queue, thread_local_clusters_, pools,
                   deferred_delete, calls, last_call, upstream_cx_none_healthy>>

InitRun == config = RunConfig /\ InitCommon

NextConstruct ==
    \/ Construct
    \/ LoadCluster
    \/ FinishLoad

NextMembership ==
    \E c \in DOMAIN primary_clusters_ :
       \E add \in FreshHosts(c), rem \in StaleHosts(c) :
          MembershipChange(c, add, rem)

NextHealth ==
    \E c \in DOMAIN primary_clusters_ :
       \E h \in Range(primary_hosts[c].hosts) : HealthChange(c, h)

\* The updates fan out to both workers.
NextFanout ==
    \/ NextConstruct
    \/ NextMembership
    \/ NextHealth
    \/ \E w \in Workers : RunTask(w)

SpecFanout == InitRun /\ [][NextFanout]_vars

\* The names asked for: the clusters of the worker and a name it does not
\* know.
RequestNames == DOMAIN primary_clusters_ \cup {SdsBackingName}

\* The rolls of upstream.use_http2 that allocateConnPool can see, one on
\* each side of every value the key takes: the feature is looked up only for
\* a cluster with the HTTP2 feature bit.
RuntimeRolls(name) == IF FeaturesHttp2(name) THEN {0, 99} ELSE {0}

\* The pools of worker w1 under membership changes, the other worker not
\* being scheduled.
NextPools ==
    \/ NextConstruct
    \/ NextMembership
    \/ RunTask("w1")
    \/ \E name \in RequestNames, priority \in PrioritySet, start_stream \in BOOLEAN :
          \E roll \in RuntimeRolls(name) :
             HttpConnPoolForCluster("w1", name, priority, UseHttp2(runtime_, roll), start_stream)
    \/ \E p \in 1..Len(pools["w1"]) : StreamDone("w1", p)
    \/ Shutdown("w1")

InitPools == config = PoolsConfig /\ InitCommon

SpecPools == InitPools /\ [][NextPools]_vars

----------------------------------------------------------------------------
(* The worker replicas of a configuration with a local cluster. *)

\* A DNS cluster "d" under "sds", the DNS cluster "a" and the static cluster
\* "b".
LocalConfig ==
    [sds |-> "strict_dns",
     clusters |-> <<[name |-> "a", type |-> "strict_dns"],
                    [name |-> "b", type |-> "static"]>>]

\* Values of "local_cluster_name": absent, each of the clusters and a name
\* that is not a cluster.
LocalNames == {NoLocal, "a", "b", "d", "zz"}

InitLocal ==
    /\ config = LocalConfig
    /\ InitManager
    /\ local_cluster_name \in LocalNames

NextLocal ==
    \/ NextConstruct
    \/ NextMembership
    \/ \E w \in Workers : RunTask(w)

SpecLocal == InitLocal /\ [][NextLocal]_vars

----------------------------------------------------------------------------
(* The choice between the HTTP/1 and the HTTP/2 pool. *)

\* Values of upstream.use_http2 an operator loads into the runtime.
RuntimeValues == {<<>>, <<0>>, <<50>>, <<100>>}

\* A new runtime snapshot is loaded.
SetRuntime(value) ==
    /\ pc = "done"
    /\ value # runtime_
    /\ runtime_' = value
    /\ UNCHANGED <<loadVars, primaryVars, workerVars, detectorVars, localVars>>

\* Pool requests of worker w1 for clusters with and without the HTTP2
\* feature bit, under every value of the runtime key; the clusters gain
\* hosts and lose none.
NextHttp2 ==
    \/ NextConstruct
    \/ \E c \in DOMAIN primary_clusters_ :
          \E add \in FreshHosts(c) : MembershipChange(c, add, {})
    \/ RunTask("w1")
    \/ \E value \in RuntimeValues : SetRuntime(value)
    \/ \E name \in DOMAIN primary_clusters_, priority \in PrioritySet :
          \E roll \in RuntimeRolls(name) :
             HttpConnPoolForCluster("w1", name, priority, UseHttp2(runtime_, roll), FALSE)

SpecHttp2 == InitRun /\ [][NextHttp2]_vars

----------------------------------------------------------------------------
(* The outlier detector under responses, the clock and its timer. *)

NextDetector ==
    \/ \E host \in DetectorHosts, code \in ResponseCodes : PutHttpResponseCode(host, code)
    \/ OnConsecutive5xxWorker
    \/ OnIntervalTimer
    \/ Tick
    \/ \E floor \in FloorValues : SetFloor(floor)

SpecDetector == InitRun /\ [][NextDetector]_vars

----------------------------------------------------------------------------
(* The other requests served from the replica of a worker. *)

\* The record of a request that is not a pool request.
OtherCallRecord(op, name, result, host) ==
    [CallRecord(name, "", result, host, NoPool, FALSE) EXCEPT !.op = op]

\* ClusterManagerImpl::tcpConnForCluster after the entry was found (lines
\* 214-220): a connection to the host chosen, or {nullptr, nullptr} with
\* upstream_cx_none_healthy incremented.
TcpConnOutcomeNotCounted(name, host, stats) ==
    IF host # NoHost
    THEN [result |-> "connection", host |-> host, stats |-> stats]
    ELSE [result |-> "absent", host |-> NoHost, stats |-> stats]

TcpConnOutcome(name, host, stats) ==
    IF host # NoHost
    THEN [result |-> "connection", host |-> host, stats |-> stats]
    ELSE [result |-> "absent", host |-> NoHost,
          stats |-> [stats EXCEPT ![name] = @ + 1]]

\* ClusterManagerImpl::tcpConnForCluster (lines 205-221) on worker w.
TcpConnForCluster(w, name) ==
    /\ pc = "done"
    /\ worker_state[w] = "running"
    /\ calls[w] < MaxCalls
    /\ calls' = [calls EXCEPT ![w] = @ + 1]
    /\ IF name \notin DOMAIN thread_local_clusters_[w]
       THEN /\ last_call' = [last_call EXCEPT ![w] =
                  OtherCallRecord("TcpConn", name, "unknown_cluster", NoHost)]
            /\ UNCHANGED <<thread_local_clusters_, upstream_cx_none_healthy>>
       ELSE \E host \in ChooseHost(name, thread_local_clusters_[w][name]) :
              LET r == TcpConnOutcome(name, host, upstream_cx_none_healthy)
              IN /\ upstream_cx_none_healthy' = r.stats
                 /\ last_call' = [last_call EXCEPT ![w] =
                       OtherCallRecord("TcpConn", name, r.result, r.host)]
                 /\ thread_local_clusters_' =
                       [thread_local_clusters_ EXCEPT ![w][name].rr_index =
                          IF host # NoHost /\ LbType(name) = "round_robin"
                          THEN @ + 1 ELSE @]
    /\ UNCHANGED <<extVars, loadVars, primaryVars, queue, host_http_conn_pool_map_, pools,
                   worker_state, deferred_delete>>

\* ClusterManagerImpl::get (lines 159-169): the info of the cluster, or
\* nullptr for a name the worker does not know.
GetOutcomeThrows(clusters, name) ==
    IF name \in DOMAIN clusters THEN "info" ELSE "unknown_cluster"

GetOutcome(clusters, name) ==
    IF name \in DOMAIN clusters THEN "info" ELSE "absent"

\* ClusterManagerImpl::httpAsyncClientForCluster (lines 223-232): the
\* async client of the entry, or EnvoyException.
HttpAsyncClientOutcome(clusters, name) ==
    IF name \in DOMAIN clusters THEN "async_client" ELSE "unknown_cluster"

\* A request that reads the replica only: get or httpAsyncClientForCluster.
Lookup(w, op, name) ==
    /\ pc = "done"
    /\ worker_state[w] = "running"
    /\ calls[w] < MaxCalls
    /\ calls' = [calls EXCEPT ![w] = @ + 1]
    /\ last_call' = [last_call EXCEPT ![w] =
          OtherCallRecord(op, name,
                          IF op = "Get"
                          THEN GetOutcome(thread_local_clusters_[w], name)
                          ELSE HttpAsyncClientOutcome(thread_local_clusters_[w], name),
                          NoHost)]
    /\ UNCHANGED <<extVars, loadVars, primaryVars, queue, thread_local_clusters_,
                   host_http_conn_pool_map_, pools, worker_state, deferred_delete,
                   upstream_cx_none_healthy>>

\* The requests of worker w1 on the cluster "a", which has no host yet, on
\* the cluster "b" and on the name "d" it does not know.
NextRequests ==
    \/ NextConstruct
    \/ RunTask("w1")
    \/ \E name \in ClusterNames, priority \in PrioritySet :
          \E roll \in RuntimeRolls(name) :
             HttpConnPoolForCluster("w1", name, priority, UseHttp2(runtime_, roll), FALSE)
    \/ \E name \in ClusterNames : TcpConnForCluster("w1", name)
    \/ \E name \in ClusterNames : Lookup("w1", "Get", name)
    \/ \E name \in ClusterNames : Lookup("w1", "HttpAsyncClient", name)

SpecRequests == InitRun /\ [][NextRequests]_vars

----------------------------------------------------------------------------
(* Claims about the init sequencing. *)

\* The clusters of the configuration that are not SDS clusters: the cluster
\* under "sds" and the clusters[] entries of another type.
NonSdsClusters ==
    (IF config.sds = "none" THEN {} ELSE {SdsBackingName})
    \cup {config.clusters[i].name :
            i \in {j \in 1..Len(config.clusters) : config.clusters[j].type # "sds"}}

AllReported == DOMAIN primary_clusters_ \subseteq reported

\* C1: no SDS cluster is told to initialize while a non-SDS cluster of the
\* configuration (the cluster under "sds" included, loaded or not yet loaded)
\* has not reported initialized.
Thm_C1_SdsStartsAfterNonSds ==
    started # {} => NonSdsClusters \subseteq reported

\* C1 witness: SDS clusters were told to initialize in a configuration with a
\* DNS cluster among at least two non-SDS clusters.
Wit_C1 ==
    /\ started # {}
    /\ Cardinality(NonSdsClusters) >= 2
    /\ \E n \in NonSdsClusters : primary_clusters_[n] = "strict_dns"

\* C2: the external callback has been invoked once when the server has
\* registered it and every registered cluster has reported initialized, and
\* not at all otherwise: never while a cluster is pending, never twice.
Thm_C2_CallbackOnceAfterAll ==
    cb_invocations = IF cb_registered /\ pc = "done" /\ AllReported THEN 1 ELSE 0

\* C2 witness: the callback has fired after an SDS cluster, the last to
\* report, completed.
Wit_C2 ==
    /\ cb_invocations = 1
    /\ initialized_callback_
    /\ started # {}
    /\ started \subseteq reported

\* C3, as a property a finite run refutes: after a successful load with SDS
\* clusters, once every non-SDS cluster has reported, every SDS cluster has
\* been told to initialize.
CE_C3_SdsStartWhenNonSdsDone ==
    (pc = "done" /\ sds_clusters_ # <<>> /\ NonSdsClusters \subseteq reported)
        => Range(sds_clusters_) \subseteq started

\* C3, the progress it promises: under FairSpecLoad every load that
\* succeeds ends with the callback invoked.
Live_C3_CallbackEventually ==
    <>(pc = "failed" \/ cb_invocations = 1)

----------------------------------------------------------------------------
(* Claims about the fan-out of the membership updates. *)

\* The tasks of cluster c in a dispatcher queue q, in queue order.
TasksFor(q, c) == SelectSeq(q, LAMBDA t : t.name = c)

\* The number of updates of cluster c worker w has run: those posted less
\* those still on its dispatcher.
Applied(w, c) == Len(sent[c]) - Len(TasksFor(queue[w], c))

\* The four vectors a task carries.
Snapshot(t) ==
    [hosts |-> t.hosts,
     healthy_hosts |-> t.healthy_hosts,
     hosts_per_zone |-> t.hosts_per_zone,
     healthy_hosts_per_zone |-> t.healthy_hosts_per_zone]

HostSetAt(w, c) == thread_local_clusters_[w][c].host_set

\* C4 as stated: the HostSet of every worker for every cluster is the
\* snapshot of the most recent update the primary posted for the cluster.
CE_C4_EqualsLastSent ==
    \A w \in Workers : \A c \in DOMAIN thread_local_clusters_[w] :
       sent[c] # <<>> => HostSetAt(w, c) = Snapshot(sent[c][Len(sent[c])])

\* C4: the HostSet of every worker for every cluster is the snapshot of the
\* most recent update of the cluster the worker has run, and empty before
\* the first; it is the snapshot of the most recent update posted as soon
\* as no update of the cluster is left on the worker's dispatcher.
Thm_C4_EqualsLastApplied ==
    \A w \in Workers : \A c \in DOMAIN thread_local_clusters_[w] :
       /\ Applied(w, c) \in 0..Len(sent[c])
       /\ HostSetAt(w, c) = IF Applied(w, c) = 0 THEN EmptyHostSet
                            ELSE Snapshot(sent[c][Applied(w, c)])

\* C4 witness: one worker has run two updates of cluster "a" and the other
\* worker is behind it, holding an older non-empty HostSet.
Wit_C4 ==
    /\ pc = "done"
    /\ Applied("w1", "a") >= 2
    /\ Applied("w2", "a") = 1
    /\ HostSetAt("w1", "a") # HostSetAt("w2", "a")
    /\ HostSetAt("w2", "a").hosts # <<>>

\* C5: a worker that runs a task runs the head of its dispatcher queue, and
\* that task is the oldest update of its cluster the worker has not run:
\* update k of a cluster is applied on a worker right after update k - 1,
\* one update per step, whatever the other worker has done.
Thm_C5_AppliedInOrder ==
    [][\A w \in Workers :
          Len(queue'[w]) < Len(queue[w]) =>
             LET t == Head(queue[w])
             IN /\ queue'[w] = Tail(queue[w])
                /\ t.k = Applied(w, t.name) + 1
                /\ t = sent[t.name][t.k]
                /\ \A c \in DOMAIN thread_local_clusters_[w] :
                      Applied(w, c)' = Applied(w, c) + (IF c = t.name THEN 1 ELSE 0)]_vars

\* C5 witness: worker w1 has run two updates of cluster "a" while worker w2
\* has run none and holds them, with an update of "b", on its dispatcher.
Wit_C5 ==
    /\ pc = "done"
    /\ Applied("w1", "a") >= 2
    /\ Applied("w2", "a") = 0
    /\ Applied("w2", "b") = 0
    /\ Len(queue["w2"]) >= 3

\* C6: the task posted for update k of a cluster carries the four vectors
\* the primary cluster has when it posts, and the delta between update k - 1
\* and update k; posting leaves the tasks already queued as they are, and a
\* worker that runs a task installs the four vectors of that task.
Thm_C6_TaskIsOneUpdate ==
    [][/\ \A c \in ClusterNames :
             Len(sent'[c]) > Len(sent[c]) =>
                LET t == sent'[c][Len(sent'[c])]
                    prev == IF sent[c] = <<>> THEN <<>>
                            ELSE sent[c][Len(sent[c])].hosts
                IN /\ Len(sent'[c]) = Len(sent[c]) + 1
                   /\ Snapshot(t) = primary_hosts'[c]
                   /\ t.hosts_added = SelectSeq(t.hosts, LAMBDA h : h \notin Range(prev))
                   /\ t.hosts_removed = SelectSeq(prev, LAMBDA h : h \notin Range(t.hosts))
                   /\ \A w \in Workers :
                         /\ Len(queue'[w]) > Len(queue[w])
                         /\ SubSeq(queue'[w], 1, Len(queue[w])) = queue[w]
                         /\ t \in Range(queue'[w])
       /\ \A w \in Workers :
             Len(queue'[w]) < Len(queue[w]) =>
                LET t == Head(queue[w])
                IN /\ thread_local_clusters_'[w][t.name].host_set = Snapshot(t)
                   /\ \A c \in DOMAIN thread_local_clusters_[w] \ {t.name} :
                         HostSetAt(w, c)' = HostSetAt(w, c)]_vars

\* C6 witness: a worker that has run an update of cluster "a" holds a later
\* one on its dispatcher, with an unhealthy host, that the primary cluster
\* has already moved on from.
Wit_C6 ==
    /\ pc = "done"
    /\ \E w \in Workers :
          /\ Applied(w, "a") >= 1
          /\ queue[w] # <<>>
          /\ Head(queue[w]).name = "a"
          /\ Head(queue[w]).healthy_hosts # Head(queue[w]).hosts
          /\ Snapshot(Head(queue[w])) # primary_hosts["a"]

----------------------------------------------------------------------------
(* Claims about the connection pools of a worker. *)

\* The pools of worker w allocated for host h.
PoolsOfHost(w, h) == {p \in 1..Len(pools[w]) : pools[w][p].host = h}

\* Pool p of worker w was told to drain and has not reported drained.
Draining(w, p) == pools[w][p].cbs # <<>> /\ ~pools[w][p].reported

\* On worker w every pool that was told to drain and has not reported is
\* still held by the container of its host in the map, and no pool of that
\* container was handed to deferred deletion.
DrainSafeOn(w) ==
    \A p \in 1..Len(pools[w]) :
       Draining(w, p) =>
          LET key == MapKey(pools[w][p].host)
              m == host_http_conn_pool_map_[w]
          IN /\ key \in DOMAIN m
             /\ m[key].pools_[pools[w][p].priority] = p
             /\ PoolsIn(m[key]) \cap deferred_delete[w] = {}

Thm_C8_DrainCompletes ==
    \A w \in Workers : \A h \in Hosts :
       (PoolsOfHost(w, h) # {} /\ \A p \in PoolsOfHost(w, h) : pools[w][p].reported)
          => /\ PoolsOfHost(w, h) \subseteq deferred_delete[w]
             /\ MapKey(h) \notin DOMAIN host_http_conn_pool_map_[w]

\* C8 witness: a host had a pool in both priority slots, one of them busy
\* when the host was removed; both have reported and were handed over.
Wit_C8 ==
    /\ worker_state["w1"] = "running"
    /\ \E h \in Hosts :
          /\ Cardinality(PoolsOfHost("w1", h)) = 2
          /\ PoolsOfHost("w1", h) \subseteq deferred_delete["w1"]
          /\ \A p \in PoolsOfHost("w1", h) : pools["w1"][p].reported
          /\ h \notin Range(HostSetAt("w1", "a").hosts)
          /\ HostSetAt("w1", "a").hosts # <<>>

\* C9: a container holds pools of the host it is keyed by and of no other
\* host, its drain counter counts its own pools that were told to drain and
\* have not reported, the drained callbacks of a pool name the host of the
\* pool, and a request is never answered with a pool of another host or
\* with a pool that was told to drain.
Thm_C9_FreshContainerForNewHost ==
    \A w \in Workers :
       /\ \A key \in DOMAIN host_http_conn_pool_map_[w] :
             LET c == host_http_conn_pool_map_[w][key]
             IN /\ \A q \in PoolsIn(c) : pools[w][q].host = key
                /\ c.drains_remaining_ =
                      Cardinality({q \in PoolsIn(c) : Draining(w, q)})
       /\ \A p \in 1..Len(pools[w]) :
             \A i \in 1..Len(pools[w][p].cbs) : pools[w][p].cbs[i] = pools[w][p].host
       /\ last_call[w].result = "pool" =>
             /\ pools[w][last_call[w].pool].host = last_call[w].host
             /\ ~last_call[w].draining

\* C9 witness: host 1 was removed and its container is draining; host 2, of
\* the same address, was added and the last request got a pool of host 2
\* from a container of its own.
Wit_C9 ==
    /\ worker_state["w1"] = "running"
    /\ Address(1) = Address(2)
    /\ \E p \in PoolsOfHost("w1", 1) :
          Draining("w1", p) /\ p \in PoolsInMap("w1")
    /\ \E q \in PoolsOfHost("w1", 2) :
          /\ last_call["w1"].pool = q
          /\ last_call["w1"].host = 2
          /\ q \in PoolsIn(host_http_conn_pool_map_["w1"][MapKey(2)])
          /\ host_http_conn_pool_map_["w1"][MapKey(2)].drains_remaining_ = 0

\* The pool stored in the map of worker w for host h and a priority, NoPool
\* when the host has no container or the slot is empty.
StoredPool(m, h, priority) ==
    IF MapKey(h) \in DOMAIN m THEN m[MapKey(h)].pools_[priority] ELSE NoPool

\* No two pools held by the containers of worker w are of the same host and
\* priority.
OnePoolPerSlot(w) ==
    \A p, q \in PoolsInMap(w) :
       (pools[w][p].host = pools[w][q].host /\ pools[w][p].priority = pools[w][q].priority)
          => p = q

\* C10: a request served with a pool creates at most one pool, and none when
\* the slot of the chosen host and the requested priority held a pool, which
\* is then the pool returned; the pool returned is the one the slot holds
\* after the call and is of that host and priority; the containers of the
\* map never hold two pools of one host and priority; three requests of one
\* priority over the round robin hosts 1, 2 leave the two pools of hosts 1
\* and 2 and end on the pool of host 1.
Thm_C10_FindOrInsert ==
    [][\A w \in Workers :
          /\ calls'[w] # calls[w] =>
                /\ Len(pools'[w]) <= Len(pools[w]) + 1
                /\ SubSeq(pools'[w], 1, Len(pools[w])) =
                      [p \in 1..Len(pools[w]) |->
                         [pools[w][p] EXCEPT !.busy = pools'[w][p].busy]]
                /\ last_call'[w].result # "pool" => Len(pools'[w]) = Len(pools[w])
                /\ last_call'[w].result = "pool" =>
                      LET r == last_call'[w]
                          old == StoredPool(host_http_conn_pool_map_[w], r.host, r.priority)
                      IN /\ StoredPool(host_http_conn_pool_map_'[w], r.host, r.priority) = r.pool
                         /\ pools'[w][r.pool].host = r.host
                         /\ pools'[w][r.pool].priority = r.priority
                         /\ old # NoPool => (r.pool = old /\ Len(pools'[w]) = Len(pools[w]))
                         /\ old = NoPool => r.pool = Len(pools[w]) + 1
          /\ OnePoolPerSlot(w)'
          /\ (/\ calls'[w] = 3
              /\ w \in DOMAIN thread_local_clusters_'
              /\ "a" \in DOMAIN thread_local_clusters_'[w]
              /\ thread_local_clusters_'[w]["a"].rr_index = 3
              /\ thread_local_clusters_'[w]["a"].host_set.hosts = <<1, 2>>
              /\ Len(sent'["a"]) = 2
              /\ \A p \in 1..Len(pools'[w]) : pools'[w][p].priority = "Default"
              /\ Len(pools'[w]) >= 2)
             => /\ Len(pools'[w]) = 2
                /\ pools'[w][1].host = 1
                /\ pools'[w][2].host = 2
                /\ last_call'[w].pool = 1]_vars

\* C10 witness: three requests of priority Default over the hosts 1, 2 were
\* answered with the pools of hosts 1, 2, 1, and two pools exist.
Wit_C10 ==
    /\ calls["w1"] = 3
    /\ thread_local_clusters_["w1"]["a"].rr_index = 3
    /\ thread_local_clusters_["w1"]["a"].host_set.hosts = <<1, 2>>
    /\ Len(pools["w1"]) = 2
    /\ pools["w1"][1].host = 1 /\ pools["w1"][1].priority = "Default"
    /\ pools["w1"][2].host = 2 /\ pools["w1"][2].priority = "Default"
    /\ last_call["w1"].pool = 1
    /\ PoolsInMap("w1") = {1, 2}

----------------------------------------------------------------------------
(* Claims about the requests a worker serves. *)

\* C11: a pool request or a TCP connection request for a cluster the worker
\* knows, made when the load balancer has no host to return, is answered
\* absent, increments upstream_cx_none_healthy of that cluster by one and
\* leaves the other counters, the host map and the pools of the worker as
\* they are; the counter changes in no other request.
Thm_C11_NoHostCountedOnce ==
    [][\A w \in Workers :
          calls'[w] # calls[w] =>
             LET r == last_call'[w]
                 c == r.cluster
                 none == /\ c \in DOMAIN thread_local_clusters_[w]
                         /\ ChooseHost(c, thread_local_clusters_[w][c]) = {NoHost}
             IN /\ (r.op \in {"HttpConnPool", "TcpConn"} /\ none) =>
                      /\ r.result = "absent"
                      /\ r.host = NoHost
                      /\ r.pool = NoPool
                      /\ upstream_cx_none_healthy' =
                            [upstream_cx_none_healthy EXCEPT ![c] = @ + 1]
                      /\ host_http_conn_pool_map_'[w] = host_http_conn_pool_map_[w]
                      /\ pools'[w] = pools[w]
                /\ upstream_cx_none_healthy' # upstream_cx_none_healthy =>
                      (r.op \in {"HttpConnPool", "TcpConn"} /\ none)]_vars

\* C11 witness: two requests for cluster "a", which has no host, were
\* counted, the last of them a TCP connection request, while the map holds a
\* pool of cluster "b".
Wit_C11 ==
    /\ calls["w1"] = 3
    /\ upstream_cx_none_healthy["a"] = 2
    /\ last_call["w1"].op = "TcpConn"
    /\ last_call["w1"].result = "absent"
    /\ PoolsInMap("w1") # {}

\* C12: for a name that is not in the cluster map of the worker, a pool
\* request and an async client request fail with the unknown cluster
\* exception and get returns absent; no host is chosen, no counter is
\* incremented and the host map and the pools stay as they are.
Thm_C12_UnknownCluster ==
    [][\A w \in Workers :
          (calls'[w] # calls[w]
           /\ last_call'[w].cluster \notin DOMAIN thread_local_clusters_[w]) =>
             LET r == last_call'[w]
             IN /\ r.op \in {"HttpConnPool", "HttpAsyncClient"} =>
                      r.result = "unknown_cluster"
                /\ r.op = "Get" => r.result = "absent"
                /\ r.host = NoHost
                /\ r.pool = NoPool
                /\ upstream_cx_none_healthy' = upstream_cx_none_healthy
                /\ thread_local_clusters_'[w] = thread_local_clusters_[w]
                /\ host_http_conn_pool_map_'[w] = host_http_conn_pool_map_[w]
                /\ pools'[w] = pools[w]]_vars

\* C12 witness: after a pool was created for cluster "b", get of the
\* unknown name "d" returned absent.
Wit_C12 ==
    /\ last_call["w1"].op = "Get"
    /\ last_call["w1"].cluster = "d"
    /\ last_call["w1"].result = "absent"
    /\ "d" \notin DOMAIN thread_local_clusters_["w1"]
    /\ PoolsInMap("w1") # {}
    /\ thread_local_clusters_["w1"]["b"].host_set.hosts # <<>>

----------------------------------------------------------------------------
(* Claims about the errors of the load. *)

\* The clusters of the configuration in load order: the cluster under "sds"
\* and the entries of clusters[].
ConfiguredClusters ==
    (IF config.sds = "none" THEN <<>>
     ELSE <<[name |-> SdsBackingName, type |-> config.sds]>>) \o config.clusters

\* Two clusters of the configuration have the same name.
HasDuplicateName ==
    \E i, j \in 1..Len(ConfiguredClusters) :
       i # j /\ ConfiguredClusters[i].name = ConfiguredClusters[j].name

\* The constructor has left the loop over clusters[] without an exception.
LoadedAll == pc = "done" \/ (pc = "clusters" /\ load_idx > Len(config.clusters))

\* C13: a configuration with two clusters of one name, the cluster under
\* "sds" included, never gets through the load; after a load that got
\* through, the registry holds one cluster for every configured cluster, of
\* the configured type, and nothing else.
Thm_C13_DuplicateNameFails ==
    /\ HasDuplicateName => ~LoadedAll
    /\ LoadedAll =>
          /\ DOMAIN primary_clusters_ = {cl.name : cl \in Range(ConfiguredClusters)}
          /\ Cardinality(DOMAIN primary_clusters_) = Len(ConfiguredClusters)
          /\ \A cl \in Range(ConfiguredClusters) : primary_clusters_[cl.name] = cl.type

\* C13 witness: the load failed on a clusters[] entry of a valid type that
\* has the name of the cluster under "sds", after an entry was loaded.
Wit_C13 ==
    /\ pc = "failed"
    /\ config.sds # "none"
    /\ load_idx = 3
    /\ config.clusters[2].name = SdsBackingName
    /\ config.clusters[2].type = "strict_dns"
    /\ config.clusters[1].name \in DOMAIN primary_clusters_

\* C14: a configuration with a cluster of type sds and no "sds" object
\* never gets through the load, and a load that fails has created no worker
\* replica and posted no update to a worker.
Thm_C14_SdsWithoutConfigFails ==
    /\ (config.sds = "none" /\ \E cl \in Range(config.clusters) : cl.type = "sds")
          => ~LoadedAll
    /\ pc # "done" =>
          /\ ~replicas_created
          /\ \A w \in Workers : queue[w] = <<>> /\ thread_local_clusters_[w] = EmptyMap
          /\ \A c \in ClusterNames : sent[c] = <<>>

\* C14 witness: the load failed on an sds cluster without an "sds" object
\* after the static cluster "b", which has a host to post, was loaded.
Wit_C14 ==
    /\ pc = "failed"
    /\ config.sds = "none"
    /\ load_idx = 3
    /\ config.clusters[2].type = "sds"
    /\ config.clusters[2].name \notin DOMAIN primary_clusters_
    /\ primary_hosts["b"].hosts # <<>>

----------------------------------------------------------------------------
(* Claims about the kind of the pool allocated. *)

\* The pool request of the step allocated a pool.
Allocates(w) == Len(pools'[w]) = Len(pools[w]) + 1

\* The pool allocated by the step.
Allocated(w) == pools'[w][Len(pools'[w])]

\* C15: a pool is HTTP/2 only if its cluster has the HTTP2 feature bit and
\* upstream.use_http2 was enabled for the roll of the allocation, which needs
\* a value above 0; for a cluster with the bit the value 100, or the key not
\* set, always gives HTTP/2 and the value 0 always gives HTTP/1; a cluster
\* without the bit always gets HTTP/1.  The value is the one at the
\* allocation, and the kind of a pool never changes afterwards.
Thm_C15_Http2Selection ==
    [][ /\ Allocates("w1") =>
             LET p == Allocated("w1")
                 bit == FeaturesHttp2(HostCluster(p.host))
             IN /\ p.kind \in {"http1", "http2"}
                /\ p.kind = "http2" => bit /\ runtime_ \notin {<<0>>}
                /\ bit /\ runtime_ \in {<<>>, <<100>>} => p.kind = "http2"
                /\ runtime_ = <<0>> => p.kind = "http1"
                /\ ~bit => p.kind = "http1"
        /\ \A i \in 1..Len(pools["w1"]) :
             i <= Len(pools'["w1"]) => pools'["w1"][i].kind = pools["w1"][i].kind
      ]_vars

\* C15 witness: after the runtime value changed, worker w1 holds an HTTP/2
\* and an HTTP/1 pool of the cluster with the feature bit and an HTTP/1 pool
\* of the cluster without it.
Wit_C15 ==
    /\ runtime_ = <<100>>
    /\ \E i, j, k \in 1..Len(pools["w1"]) :
          /\ FeaturesHttp2(HostCluster(pools["w1"][i].host))
          /\ pools["w1"][i].kind = "http1"
          /\ FeaturesHttp2(HostCluster(pools["w1"][j].host))
          /\ pools["w1"][j].kind = "http2"
          /\ i < j
          /\ ~FeaturesHttp2(HostCluster(pools["w1"][k].host))
          /\ pools["w1"][k].kind = "http1"

----------------------------------------------------------------------------
(* Claims about the outlier detector. *)

\* Hosts with the outlier-ejected flag.
EjectedHosts == {h \in DetectorHosts : outlier_ejected[h]}

\* The step ejects host h.
Ejects(h) == ~outlier_ejected[h] /\ outlier_ejected'[h]

\* The step un-ejects host h.
Unejects(h) == outlier_ejected[h] /\ ~outlier_ejected'[h]

\* The un-ejected percentage of the hosts is at or above the floor.
AboveFloor(ejected, floor) ==
    (Cardinality(DetectorHosts) - Cardinality(ejected)) * 100
       >= floor * Cardinality(DetectorHosts)

RECURSIVE SumEjections(_)
SumEjections(hs) ==
    IF hs = {} THEN 0
    ELSE LET h == CHOOSE x \in hs : TRUE
         IN host_sinks_[h].num_ejections_ + SumEjections(hs \ {h})

\* C16: a non-5xx response resets the counter of its host and a 5xx
\* response adds one to it, and a response by itself ejects nobody; the
\* event of a host that reached the threshold, when the host is not ejected
\* and the cap allows, ejects the host, takes it from the hosts the load
\* balancer picks from and adds one to num_ejections, ejections_total and
\* ejections_active, and a host is ejected in no other way; a host was
\* ejected at most once for every run of 5xx that reached the threshold, so
\* never without one; after five 500s on A and nothing else among {A, B, C}
\* ejections_total is 1 and, until the timer un-ejects A, ejections_active is
\* 1 and the load balancer picks from {B, C}.
Thm_C16_Consecutive5xxEjects ==
    /\ [][ /\ \A host \in DetectorHosts, code \in ResponseCodes :
                PutHttpResponseCode(host, code) =>
                   /\ host_sinks_'[host].consecutive_5xx_ =
                         (IF code \in 500..599
                          THEN host_sinks_[host].consecutive_5xx_ + 1 ELSE 0)
                   /\ \A h \in DetectorHosts \ {host} : host_sinks_'[h] = host_sinks_[h]
                   /\ outlier_ejected' = outlier_ejected
                   /\ stats_' = stats_
           /\ (OnConsecutive5xxWorker /\ ~outlier_ejected[Head(posted_5xx)]
                  /\ AboveFloor(EjectedHosts \cup {Head(posted_5xx)}, ejection_floor))
                 => Ejects(Head(posted_5xx))
           /\ \A h \in DetectorHosts :
                Ejects(h) =>
                   /\ posted_5xx # <<>> /\ h = Head(posted_5xx)
                   /\ h \notin lb_hosts'
                   /\ host_sinks_'[h].num_ejections_ = host_sinks_[h].num_ejections_ + 1
                   /\ host_sinks_'[h].ejection_time_ = now
                   /\ stats_'.ejections_total = stats_.ejections_total + 1
                   /\ stats_'.ejections_active = stats_.ejections_active + 1
         ]_vars
    /\ [](/\ \A h \in DetectorHosts : host_sinks_[h].num_ejections_ <= episodes[h]
          /\ stats_.ejections_active = Cardinality(EjectedHosts)
          /\ stats_.ejections_total = SumEjections(DetectorHosts)
          /\ (responses = Consecutive5xxThreshold
                /\ host_sinks_["A"].consecutive_5xx_ = Consecutive5xxThreshold
                /\ posted_5xx = <<>>)
               => /\ stats_.ejections_total = 1
                  /\ host_sinks_["A"].num_ejections_ = 1
                  /\ outlier_ejected["A"] =>
                        stats_.ejections_active = 1 /\ lb_hosts = {"B", "C"}
                  /\ ~outlier_ejected["A"] =>
                        now - host_sinks_["A"].ejection_time_ >= BaseEjectionTime)

\* C16 witness: A is ejected after five 500s on A and nothing else.
Wit_C16 ==
    /\ responses = 5
    /\ host_sinks_["A"].consecutive_5xx_ = 5
    /\ outlier_ejected["A"]
    /\ stats_.ejections_total = 1
    /\ stats_.ejections_active = 1
    /\ lb_hosts = {"B", "C"}

\* C17 as stated: the ejected percentage of the hosts is below the floor in
\* every state.
CE_C17_EjectedBelowFloor ==
    Cardinality(EjectedHosts) * 100 < ejection_floor * Cardinality(DetectorHosts)

\* C17: every ejection leaves the un-ejected percentage of the hosts at or
\* above the floor in force; the event of a host that is not ejected and
\* whose ejection would bring the percentage below the floor leaves the host
\* un-ejected with its sink, ejections_total and ejections_active as they
\* were and adds one to ejections_overflow, which changes in no other step.
Thm_C17_EjectionCap ==
    [][ /\ \A h \in DetectorHosts :
             Ejects(h) => AboveFloor(EjectedHosts \cup {h}, ejection_floor)
        /\ (OnConsecutive5xxWorker /\ ~outlier_ejected[Head(posted_5xx)]
               /\ ~AboveFloor(EjectedHosts \cup {Head(posted_5xx)}, ejection_floor))
              => /\ outlier_ejected' = outlier_ejected
                 /\ host_sinks_' = host_sinks_
                 /\ lb_hosts' = lb_hosts
                 /\ stats_' = [stats_ EXCEPT !.ejections_overflow = @ + 1]
        /\ stats_'.ejections_overflow # stats_.ejections_overflow
              => /\ posted_5xx # <<>>
                 /\ ~outlier_ejected[Head(posted_5xx)]
                 /\ ~AboveFloor(EjectedHosts \cup {Head(posted_5xx)}, ejection_floor)
      ]_vars

\* C17 witness: with A ejected and a floor of 50, the ejection of B was
\* refused.
Wit_C17 ==
    /\ ejection_floor = 50
    /\ EjectedHosts = {"A"}
    /\ host_sinks_["B"].consecutive_5xx_ = Consecutive5xxThreshold
    /\ host_sinks_["B"].num_ejections_ = 0
    /\ posted_5xx = <<>>
    /\ stats_.ejections_overflow = 1
    /\ stats_.ejections_active = 1

\* C18: the sweep of the interval timer un-ejects exactly the ejected hosts
\* with now - ejection_time >= base_ejection_time * num_ejections, and no
\* other step un-ejects a host; a host un-ejected is back among the hosts the
\* load balancer picks from and ejections_active went down by the number of
\* hosts the sweep un-ejected.
Thm_C18_Unejection ==
    [][ /\ OnIntervalTimer =>
             /\ \A h \in EjectedHosts :
                   outlier_ejected'[h] =
                      ~(now - host_sinks_[h].ejection_time_
                           >= BaseEjectionTime * host_sinks_[h].num_ejections_)
             /\ stats_'.ejections_active =
                   stats_.ejections_active
                      - Cardinality({h \in DetectorHosts : Unejects(h)})
        /\ \A h \in DetectorHosts :
             Unejects(h) =>
                /\ now - host_sinks_[h].ejection_time_
                      >= BaseEjectionTime * host_sinks_[h].num_ejections_
                /\ h \in lb_hosts'
                /\ host_sinks_' = host_sinks_
                /\ stats_'.ejections_active < stats_.ejections_active
                /\ posted_5xx' = posted_5xx /\ responses' = responses /\ now' = now
      ]_vars

\* C18 witness: the second ejection of A has ended, two base intervals after
\* it began.
Wit_C18 ==
    /\ host_sinks_["A"].num_ejections_ = 2
    /\ ~outlier_ejected["A"]
    /\ "A" \in lb_hosts
    /\ now - host_sinks_["A"].ejection_time_ = 2 * BaseEjectionTime
    /\ stats_.ejections_active = 0

----------------------------------------------------------------------------
(* Claims about the local cluster. *)

\* Positions of name n in the order of constructions of worker w.
CreatedAt(w, n) == {i \in 1..Len(replica_order[w]) : replica_order[w][i] = n}

\* C19: when a local cluster is configured and the worker replicas exist,
\* on every worker the ClusterEntry of the local cluster was constructed
\* first and once, the entry of every other loaded cluster once and after
\* it; the load balancer of every other cluster is bound to the HostSet of
\* the local cluster of that worker and the load balancer of the local
\* cluster to none, at every time after the construction.
Thm_C19_LocalClusterFirst ==
    (replicas_created /\ local_cluster_name # NoLocal) =>
       \A w \in Workers :
          /\ local_cluster_name \in DOMAIN thread_local_clusters_[w]
          /\ DOMAIN thread_local_clusters_[w] = DOMAIN primary_clusters_
          /\ CreatedAt(w, local_cluster_name) = {1}
          /\ thread_local_clusters_[w][local_cluster_name].local_host_set = NoLocal
          /\ \A n \in DOMAIN thread_local_clusters_[w] \ {local_cluster_name} :
                /\ Cardinality(CreatedAt(w, n)) = 1
                /\ \A i \in CreatedAt(w, n) : i > 1
                /\ thread_local_clusters_[w][n].local_host_set = local_cluster_name

\* C19 witness: with the local cluster "b", a worker has applied the first
\* update of "b" and an update of the cluster "a", which is bound to "b".
Wit_C19 ==
    /\ local_cluster_name = "b"
    /\ replicas_created
    /\ Len(replica_order["w2"]) = 3
    /\ replica_order["w2"][1] = "b"
    /\ thread_local_clusters_["w2"]["b"].host_set.hosts # <<>>
    /\ thread_local_clusters_["w2"]["a"].host_set.hosts # <<>>
    /\ thread_local_clusters_["w2"]["a"].local_host_set = "b"

----------------------------------------------------------------------------
(* Claims about the drained callbacks. *)

\* Pool p of worker w reports drained in the step.
ReportsDrained(w, p) == ~pools[w][p].reported /\ pools'[w][p].reported

\* C20: the drained callbacks leave no trace of a container they did not
\* find or found with a counter of 0: no container of a map has a counter
\* that went below 0 or no pool at all, and the map of a worker that was shut
\* down stays empty; a pool that reports drained when its last stream ends
\* is held by the container of its host, whose counter is above 0, and the
\* step takes exactly one from the counter or erases the container.
Thm_C20_DrainedCbFindsContainer ==
    /\ [](\A w \in Workers :
            /\ \A key \in DOMAIN host_http_conn_pool_map_[w] :
                  /\ host_http_conn_pool_map_[w][key].drains_remaining_ >= 0
                  /\ PoolsIn(host_http_conn_pool_map_[w][key]) # {}
            /\ worker_state[w] = "shutdown" => host_http_conn_pool_map_[w] = EmptyMap)
    /\ [][\A w \in Workers : \A p \in 1..Len(pools[w]) :
             (ReportsDrained(w, p) /\ pools[w][p].cbs # <<>>) =>
                LET key == MapKey(pools[w][p].host)
                    m == host_http_conn_pool_map_[w]
                IN /\ worker_state[w] = "running"
                   /\ pools[w][p].cbs = <<pools[w][p].host>>
                   /\ key \in DOMAIN m
                   /\ p \in PoolsIn(m[key])
                   /\ m[key].drains_remaining_ > 0
                   /\ IF m[key].drains_remaining_ = 1
                      THEN key \notin DOMAIN host_http_conn_pool_map_'[w]
                      ELSE /\ key \in DOMAIN host_http_conn_pool_map_'[w]
                           /\ host_http_conn_pool_map_'[w][key].drains_remaining_
                                 = m[key].drains_remaining_ - 1
         ]_vars

\* C20 witness: worker w1 was shut down after one pool of a removed host
\* had reported drained and while another pool of the host had not.
Wit_C20 ==
    /\ worker_state["w1"] = "shutdown"
    /\ \E p, q \in 1..Len(pools["w1"]) :
          /\ pools["w1"][p].host = pools["w1"][q].host
          /\ pools["w1"][p].cbs # <<>> /\ pools["w1"][p].reported
          /\ Draining("w1", q)

----------------------------------------------------------------------------
(* Claims about the counter of pending init reports. *)

\* The value the constructor gives the counter (lines 27 and 40).
InitialPending ==
    Len(config.clusters) + (IF config.sds = "none" THEN 0 ELSE 1)

\* C21: once the constructor has set the counter, the counter is its
\* initial value, the number of clusters[] entries plus one when "sds" is
\* configured, less the number of clusters that have reported; a report
\* finds the counter above 0 and takes one from it, and nothing else changes
\* it; after a load that got through it is the number of registered clusters
\* that have not reported.
Thm_C21_PendingCounter ==
    /\ [](/\ pc \in {"clusters", "done"} =>
               /\ pending_cluster_init_ = InitialPending - Cardinality(reported)
               /\ pending_cluster_init_ >= 0
          /\ pc = "done" =>
               pending_cluster_init_ =
                  Cardinality(DOMAIN primary_clusters_ \ reported))
    /\ [][ /\ reported' # reported =>
                /\ reported \subseteq reported'
                /\ Cardinality(reported') = Cardinality(reported) + 1
                /\ (IF pc = "start" THEN InitialPending ELSE pending_cluster_init_) > 0
                /\ pending_cluster_init_' =
                      (IF pc = "start" THEN InitialPending ELSE pending_cluster_init_) - 1
           /\ (reported' = reported /\ pc # "start") =>
                pending_cluster_init_' = pending_cluster_init_
         ]_vars

\* C21 witness: with "sds" configured and two clusters[] entries, two of
\* the three registered clusters have reported and one is pending.
Wit_C21 ==
    /\ pc = "done"
    /\ config.sds # "none"
    /\ Len(config.clusters) = 2
    /\ Cardinality(reported) = 2
    /\ pending_cluster_init_ = 1
    /\ Cardinality(DOMAIN primary_clusters_) = 3

----------------------------------------------------------------------------
(* Claims about the containers of the map. *)

\* Worker w runs a task in the step.
RunsTask(w) == queue[w] # <<>> /\ queue'[w] = Tail(queue[w])

\* Host h is not a member of its cluster on worker w.
NotMember(w, h) ==
    HostCluster(h) \in DOMAIN thread_local_clusters_[w]
       => h \notin Range(thread_local_clusters_[w][HostCluster(h)].host_set.hosts)

\* C22: every container of a map holds a pool, and the container of a host
\* that is no longer a member has a counter of at least 1 with a pool that
\* was told to drain and has not reported; the update that removes a host
\* with a container registers a drained callback on every pool of the
\* container and leaves the container erased or with a counter of at least
\* 1; the update that removes only hosts without a container leaves the map
\* as it is.
Thm_C22_ContainerHoldsPool ==
    /\ [](\A w \in Workers :
            \A key \in DOMAIN host_http_conn_pool_map_[w] :
               LET c == host_http_conn_pool_map_[w][key]
               IN /\ PoolsIn(c) # {}
                  /\ NotMember(w, key) =>
                        /\ c.drains_remaining_ >= 1
                        /\ \E p \in PoolsIn(c) : Draining(w, p))
    /\ [][\A w \in Workers :
             RunsTask(w) =>
                LET removed == Range(Head(queue[w]).hosts_removed)
                    m == host_http_conn_pool_map_[w]
                    n == host_http_conn_pool_map_'[w]
                IN /\ \A h \in removed :
                        MapKey(h) \in DOMAIN m =>
                           /\ \A p \in PoolsIn(m[MapKey(h)]) : pools'[w][p].cbs # <<>>
                           /\ \/ MapKey(h) \notin DOMAIN n
                              \/ n[MapKey(h)].drains_remaining_ >= 1
                   /\ (\A h \in removed : MapKey(h) \notin DOMAIN m) => n = m
         ]_vars

\* C22 witness: on worker w1 the container of the removed host 1 is
\* draining, and host 2, which never had a container, was removed as well.
Wit_C22 ==
    /\ worker_state["w1"] = "running"
    /\ queue["w1"] = <<>>
    /\ MapKey(1) \in DOMAIN host_http_conn_pool_map_["w1"]
    /\ host_http_conn_pool_map_["w1"][MapKey(1)].drains_remaining_ >= 1
    /\ "a" \in DOMAIN thread_local_clusters_["w1"]
    /\ thread_local_clusters_["w1"]["a"].host_set.hosts = <<>>
    /\ 2 \in EverMembers("a")
    /\ PoolsOfHost("w1", 2) = {}

====
